---- MODULE Spec2Model ----
(***************************************************************************)
(* String case converters: toKebabCase, toDotCase, toCamelCase (validated) *)
(* and the simple toCamelCase variant.  A JavaScript string is modelled as *)
(* a sequence of characters, a character as a one-element TLA+ string      *)
(* (the non-ASCII KELVIN SIGN as the atom "U+212A").  One call is a run of *)
(* the machine: call -> statements of the function -> returned | thrown.   *)
(***************************************************************************)
EXTENDS Integers, Sequences, FiniteSets

VARIABLES fn, input, pc, str, normalized, cleaned, result, error

vars == <<fn, input, pc, str, normalized, cleaned, result, error>>

----------------------------------------------------------------------------
(* Bounds of the explored inputs *)

MaxLen == 4

----------------------------------------------------------------------------
(* Characters and the character classes of the regular expressions *)

LowerLetters ==
  <<"a","b","c","d","e","f","g","h","i","j","k","l","m",
    "n","o","p","q","r","s","t","u","v","w","x","y","z">>

UpperLetters ==
  <<"A","B","C","D","E","F","G","H","I","J","K","L","M",
    "N","O","P","Q","R","S","T","U","V","W","X","Y","Z">>

Range(f) == { f[i] : i \in DOMAIN f }

Lower == Range(LowerLetters)

Upper == Range(UpperLetters)

Digits == {"0","1","2","3","4","5","6","7","8","9"}

\* U+212A KELVIN SIGN: not matched by \w or \s, lowercases to ASCII "k"
KelvinSign == "U+212A"

\* \s of the regular expressions, and the characters String.prototype.trim drops
Whitespace == {" ", "\t", "\n"}

\* \w of the regular expressions (no u or i flag): [A-Za-z0-9_]
WordChars == Lower \cup Upper \cup Digits \cup {"_"}

IndexOf(seq, c) == CHOOSE i \in DOMAIN seq : seq[i] = c

\* String.prototype.toLowerCase, one character
ToLowerChar(c) ==
  IF c \in Upper THEN LowerLetters[IndexOf(UpperLetters, c)]
  ELSE IF c = KelvinSign THEN "k"
  ELSE c

\* String.prototype.toUpperCase, one character
ToUpperChar(c) ==
  IF c \in Lower THEN UpperLetters[IndexOf(LowerLetters, c)]
  ELSE c

ToLowerCase(s) == [i \in 1..Len(s) |-> ToLowerChar(s[i])]

ToUpperCase(s) == [i \in 1..Len(s) |-> ToUpperChar(s[i])]

----------------------------------------------------------------------------
(* String.prototype methods and regular-expression replacements *)

RECURSIVE TrimStart(_)
TrimStart(s) ==
  IF s # <<>> /\ Head(s) \in Whitespace THEN TrimStart(Tail(s)) ELSE s

RECURSIVE TrimEnd(_)
TrimEnd(s) ==
  IF s # <<>> /\ s[Len(s)] \in Whitespace
  THEN TrimEnd(SubSeq(s, 1, Len(s) - 1)) ELSE s

\* str.trim()
Trim(s) == TrimEnd(TrimStart(s))

\* s.replace(/[^class]/g, ''): delete every character outside the class
RECURSIVE RemoveOutside(_, _)
RemoveOutside(s, class) ==
  IF s = <<>> THEN <<>>
  ELSE IF Head(s) \in class THEN <<Head(s)>> \o RemoveOutside(Tail(s), class)
  ELSE RemoveOutside(Tail(s), class)

\* s.replace(/[class]+/g, rep): every maximal run of class characters
\* becomes the one character rep
RECURSIVE ReplaceRuns(_, _, _)
ReplaceRuns(s, class, rep) ==
  IF s = <<>> THEN <<>>
  ELSE IF Head(s) \in class
       THEN IF Len(s) > 1 /\ s[2] \in class
            THEN ReplaceRuns(Tail(s), class, rep)
            ELSE <<rep>> \o ReplaceRuns(Tail(s), class, rep)
       ELSE <<Head(s)>> \o ReplaceRuns(Tail(s), class, rep)

RECURSIVE StripLeading(_, _)
StripLeading(s, class) ==
  IF s # <<>> /\ Head(s) \in class THEN StripLeading(Tail(s), class) ELSE s

RECURSIVE StripTrailing(_, _)
StripTrailing(s, class) ==
  IF s # <<>> /\ s[Len(s)] \in class
  THEN StripTrailing(SubSeq(s, 1, Len(s) - 1), class) ELSE s

\* s.replace(/^-+|-+$/g, '')
StripEnds(s, class) == StripTrailing(StripLeading(s, class), class)

\* s.split(/[class]+/): the pieces between the maximal runs of class
\* characters; a run at either end leaves an empty piece there, and the
\* empty string splits into one empty piece
RECURSIVE SplitFrom(_, _, _)
SplitFrom(s, class, cur) ==
  IF s = <<>> THEN <<cur>>
  ELSE IF Head(s) \in class
       THEN <<cur>> \o SplitFrom(StripLeading(s, class), class, <<>>)
       ELSE SplitFrom(Tail(s), class, Append(cur, Head(s)))

Split(s, class) == SplitFrom(s, class, <<>>)

\* words.filter(word => word.length > 0)
RECURSIVE FilterNonEmpty(_)
FilterNonEmpty(ws) ==
  IF ws = <<>> THEN <<>>
  ELSE IF Len(Head(ws)) > 0 THEN <<Head(ws)>> \o FilterNonEmpty(Tail(ws))
  ELSE FilterNonEmpty(Tail(ws))

\* words.join(sep); sep is a string, here <<>> or one character
RECURSIVE Join(_, _)
Join(ws, sep) ==
  IF ws = <<>> THEN <<>>
  ELSE IF Len(ws) = 1 THEN Head(ws)
  ELSE Head(ws) \o sep \o Join(Tail(ws), sep)

----------------------------------------------------------------------------
(* The bodies of the four functions, statement by statement *)

\* toKebabCase step 2 without the removal of special characters
KebabNormalized_KeepSpecial(s) == ToLowerCase(Trim(s))

\* toKebabCase step 2: input.trim().toLowerCase().replace(/[^\w\s\-]/g, '')
KebabNormalized(s) ==
  RemoveOutside(ToLowerCase(Trim(s)), WordChars \cup Whitespace \cup {"-"})

\* toKebabCase step 3 with the leading and trailing hyphens removed first
KebabReplaced_StripFirst(n) ==
  ReplaceRuns(ReplaceRuns(StripEnds(n, {"-"}), Whitespace \cup {"_"}, "-"),
              {"-"}, "-")

\* toKebabCase step 3: .replace(/[\s_]+/g, '-').replace(/-+/g, '-')
\*                     .replace(/^-+|-+$/g, '')
KebabReplaced(n) ==
  StripEnds(ReplaceRuns(ReplaceRuns(n, Whitespace \cup {"_"}, "-"),
                        {"-"}, "-"),
            {"-"})

\* toDotCase `cleaned` without the filter of empty words
DotCleaned_NoFilter(s) ==
  Split(RemoveOutside(ReplaceRuns(s, Whitespace \cup {"_", "-"}, " "),
                      WordChars \cup Whitespace),
        Whitespace)

\* toDotCase: the value of `cleaned` for the trimmed, non-empty str
DotCleaned(s) ==
  FilterNonEmpty(
    Split(RemoveOutside(ReplaceRuns(s, Whitespace \cup {"_", "-"}, " "),
                        WordChars \cup Whitespace),
          Whitespace))

\* toDotCase: cleaned.map(word => word.toLowerCase()).join('.')
DotJoined(ws) == Join([i \in 1..Len(ws) |-> ToLowerCase(ws[i])], <<".">>)

\* toCamelCase `cleaned` without the removal of special characters
CamelCleaned_KeepSpecial(s) ==
  FilterNonEmpty(
    Split(ReplaceRuns(s, Whitespace \cup {"_", "-"}, " "), Whitespace))

\* toCamelCase: the value of `cleaned` for the trimmed, non-empty str
CamelCleaned(s) ==
  FilterNonEmpty(
    Split(RemoveOutside(ReplaceRuns(s, Whitespace \cup {"_", "-"}, " "),
                        WordChars \cup Whitespace),
          Whitespace))

\* word.charAt(0)
CharAt0(word) == IF word = <<>> THEN <<>> ELSE <<word[1]>>

\* word.slice(1)
Slice1(word) == IF word = <<>> THEN <<>> ELSE Tail(word)

\* the map callback without the capital of the later words
CamelWord_NoCapital(word, index) == ToLowerCase(word)

\* the map callback without the lowercasing of the rest of the later words
CamelWord_KeepRest(word, index) ==
  IF index = 1 THEN ToLowerCase(word)
  ELSE ToUpperCase(CharAt0(word)) \o Slice1(word)

\* toCamelCase: the map callback; index counts from 1 here (0 in the code)
CamelWord(word, index) ==
  IF index = 1 THEN ToLowerCase(word)
  ELSE ToUpperCase(CharAt0(word)) \o ToLowerCase(Slice1(word))

\* toCamelCase: cleaned.map(...).join('')
CamelJoined(ws) == Join([i \in 1..Len(ws) |-> CamelWord(ws[i], i)], <<>>)

\* simple toCamelCase: the map callback; index counts from 1 here
SimpleCamelWord(word, index) ==
  LET w == ToLowerCase(word)
  IN  IF index = 1 THEN w ELSE ToUpperCase(CharAt0(w)) \o Slice1(w)

\* simple toCamelCase: str.split(/[-_\s]+/).map(...).join('')
SimpleCamelCase(s) ==
  LET ws == Split(s, {"-", "_"} \cup Whitespace)
  IN  Join([i \in 1..Len(ws) |-> SimpleCamelWord(ws[i], i)], <<>>)

\* The value each validated function returns for a string argument
ToKebabCase(s) == KebabReplaced(KebabNormalized(s))

ToDotCase(s) ==
  LET t == Trim(s)
  IN  IF Len(t) = 0 THEN <<>>
      ELSE IF Len(DotCleaned(t)) = 0 THEN <<>> ELSE DotJoined(DotCleaned(t))

ToCamelCase(s) ==
  LET t == Trim(s)
  IN  IF Len(t) = 0 THEN <<>>
      ELSE IF Len(CamelCleaned(t)) = 0 THEN <<>>
           ELSE CamelJoined(CamelCleaned(t))

----------------------------------------------------------------------------
(* Arguments of a call *)

Functions == {"toKebabCase", "toDotCase", "toCamelCase", "simpleToCamelCase"}

Alphabet == {"a", "B", "2", " ", "_", "-", "@", ".", KelvinSign}

\* Arguments and documented results of the test calls, by name
\* toCamelCase('hello@world!'), toDotCase('hello@world!')
HelloAtWorld ==
  <<"h","e","l","l","o","@","w","o","r","l","d","!">>

\* toCamelCase('user#name$'), toDotCase('user#name$')
UserHashName ==
  <<"u","s","e","r","#","n","a","m","e","$">>

\* toCamelCase('hello_world-foo bar')
HelloWorldFooBar ==
  <<"h","e","l","l","o","_","w","o","r","l","d","-","f","o","o"," ","b","a",
    "r">>

\* toKebabCase(" API_Response Code ")
ApiResponseCodePadded ==
  <<" ","A","P","I","_","R","e","s","p","o","n","s","e"," ","C","o","d","e",
    " ">>

\* toCamelCase('API response code')
ApiResponseCode ==
  <<"A","P","I"," ","r","e","s","p","o","n","s","e"," ","c","o","d","e">>

\* toCamelCase('version 2 update')
Version2Update ==
  <<"v","e","r","s","i","o","n"," ","2"," ","u","p","d","a","t","e">>

\* toCamelCase('SCREEN_NAME')
ScreenName ==
  <<"S","C","R","E","E","N","_","N","A","M","E">>

\* documented result "hello.world"
Doc_hello_dot_world ==
  <<"h","e","l","l","o",".","w","o","r","l","d">>

\* documented result "user.name"
Doc_user_dot_name ==
  <<"u","s","e","r",".","n","a","m","e">>

\* documented result "helloWorld"
Doc_helloWorld ==
  <<"h","e","l","l","o","W","o","r","l","d">>

\* documented result "userName"
Doc_userName ==
  <<"u","s","e","r","N","a","m","e">>

\* documented result "helloWorldFooBar"
Doc_helloWorldFooBar ==
  <<"h","e","l","l","o","W","o","r","l","d","F","o","o","B","a","r">>

\* documented result "api-response-code"
Doc_api_response_code ==
  <<"a","p","i","-","r","e","s","p","o","n","s","e","-","c","o","d","e">>

\* documented result "apiResponseCode"
Doc_apiResponseCode ==
  <<"a","p","i","R","e","s","p","o","n","s","e","C","o","d","e">>

\* documented result "version2Update"
Doc_version2Update ==
  <<"v","e","r","s","i","o","n","2","U","p","d","a","t","e">>

BoundedStrings == UNION { [1..k -> Alphabet] : k \in 0..MaxLen }

\* The strings of the test calls and of the documented examples
Examples == {
  <<"H","e","l","l","o"," ","W","o","r","l","d">>,
  ApiResponseCodePadded,
  <<"t","e","s","t","-","c","a","s","e">>,
  <<"_","_","_","m","u","l","t","i","p","l","e","_","_","_","u","n","d",
   "e","r","s","c","o","r","e","s","_","_","_">>,
  <<"h","e","l","l","o"," ","w","o","r","l","d">>,
  <<"h","e","l","l","o","_","w","o","r","l","d">>,
  <<"h","e","l","l","o","-","w","o","r","l","d">>,
  HelloAtWorld,
  UserHashName,
  <<" "," "," ","h","e","l","l","o"," ","w","o","r","l","d"," "," "," ">>,
  <<"h","e","l","l","o","_","_","_","w","o","r","l","d">>,
  <<" "," "," ">>,
  HelloWorldFooBar,
  <<"a","p","i","_","r","e","s","p","o","n","s","e","_","c","o","d","e">>,
  ApiResponseCode,
  Version2Update,
  <<"h","e","l","l","o"," "," "," ","w","o","r","l","d">>,
  <<"h","e","l","l","o">>,
  <<"_","_","_">>,
  <<" "," ","h","e","l","l","o"," ","w","o","r","l","d"," "," ">>,
  <<"f","i","r","s","t"," ","n","a","m","e">>,
  <<"u","s","e","r","_","i","d">>,
  ScreenName,
  <<"m","o","b","i","l","e","-","n","u","m","b","e","r">>,
  <<"c","o","n","v","e","r","t"," ","t","h","i","s"," ","s","t","r","i","n","g">>,
  <<"s","n","a","k","e","_","c","a","s","e","_","t","e","x","t">>
}

\* typeof of the non-string arguments of the test calls:
\* null, undefined, 123, {}, []
NonStringTypes == {"null", "undefined", "number", "object", "array"}

StringValue(s) == [type |-> "string", chars |-> s]

NonStringValue(t) == [type |-> t, chars |-> <<>>]

Inputs ==
  { StringValue(s) : s \in BoundedStrings \cup Examples }
    \cup { NonStringValue(t) : t \in NonStringTypes }

IsNullish(v) == v.type \in {"null", "undefined"}

\* typeof v
TypeOf(v) ==
  CASE v.type = "string" -> "string"
    [] v.type = "number" -> "number"
    [] v.type = "undefined" -> "undefined"
    [] OTHER -> "object"

Unset == [def |-> FALSE, val |-> <<>>]

Value(x) == [def |-> TRUE, val |-> x]

KebabMessage == "Input must be a non-null string"

MissingMessage == "Input cannot be null or undefined"

WrongTypeMessage(v) ==
  CASE TypeOf(v) = "number" -> "Expected string, received number"
    [] TypeOf(v) = "object" -> "Expected string, received object"
    [] OTHER -> "Expected string, received undefined"

\* what calling .split on a non-string raises
NoSplitMessage == "TypeError: str.split"

----------------------------------------------------------------------------
(* The state machine of one call *)

Init ==
  /\ fn \in Functions
  /\ input \in Inputs
  /\ pc = "call"
  /\ str = Unset
  /\ normalized = Unset
  /\ cleaned = Unset
  /\ result = Unset
  /\ error = ""

Throw(msg) ==
  /\ pc' = "thrown"
  /\ error' = msg
  /\ UNCHANGED <<fn, input, str, normalized, cleaned, result>>

Return(s) ==
  /\ pc' = "returned"
  /\ result' = Value(s)
  /\ UNCHANGED <<fn, input, str, normalized, cleaned, error>>

Goto(label) ==
  /\ pc' = label
  /\ UNCHANGED <<fn, input, error, result>>

\* toKebabCase, step 1
KebabValidate ==
  /\ fn = "toKebabCase" /\ pc = "call"
  /\ IF IsNullish(input) \/ TypeOf(input) # "string"
     THEN Throw(KebabMessage)
     ELSE Goto("normalize") /\ UNCHANGED <<str, normalized, cleaned>>

\* toKebabCase, step 2
KebabNormalize ==
  /\ fn = "toKebabCase" /\ pc = "normalize"
  /\ normalized' = Value(KebabNormalized(input.chars))
  /\ Goto("replace") /\ UNCHANGED <<str, cleaned>>

\* toKebabCase, step 3
KebabReplace ==
  /\ fn = "toKebabCase" /\ pc = "replace"
  /\ normalized' = Value(KebabReplaced(normalized.val))
  /\ Goto("return") /\ UNCHANGED <<str, cleaned>>

\* toKebabCase, step 4
KebabReturn ==
  /\ fn = "toKebabCase" /\ pc = "return"
  /\ Return(normalized.val)

\* toDotCase, the two validation tests
DotValidate ==
  /\ fn = "toDotCase" /\ pc = "call"
  /\ IF IsNullish(input) THEN Throw(MissingMessage)
     ELSE IF TypeOf(input) # "string" THEN Throw(WrongTypeMessage(input))
     ELSE Goto("trim") /\ UNCHANGED <<str, normalized, cleaned>>

\* toDotCase: str = str.trim(), and the early return on the empty string
DotTrim ==
  /\ fn = "toDotCase" /\ pc = "trim"
  /\ str' = Value(Trim(input.chars))
  /\ IF Len(Trim(input.chars)) = 0
     THEN /\ pc' = "returned"
          /\ result' = Value(<<>>)
          /\ UNCHANGED <<fn, input, normalized, cleaned, error>>
     ELSE Goto("clean") /\ UNCHANGED <<normalized, cleaned>>

\* toDotCase: const cleaned = ..., and the early return on no words
DotClean ==
  /\ fn = "toDotCase" /\ pc = "clean"
  /\ cleaned' = Value(DotCleaned(str.val))
  /\ IF Len(DotCleaned(str.val)) = 0
     THEN /\ pc' = "returned"
          /\ result' = Value(<<>>)
          /\ UNCHANGED <<fn, input, str, normalized, error>>
     ELSE Goto("join") /\ UNCHANGED <<str, normalized>>

\* toDotCase: return cleaned.map(...).join('.')
DotJoin ==
  /\ fn = "toDotCase" /\ pc = "join"
  /\ Return(DotJoined(cleaned.val))

\* toCamelCase validation with the null test only
CamelValidate_NullTestOnly ==
  /\ fn = "toCamelCase" /\ pc = "call"
  /\ IF IsNullish(input) THEN Throw(MissingMessage)
     ELSE Goto("trim") /\ UNCHANGED <<str, normalized, cleaned>>

\* toCamelCase, the two validation tests
CamelValidate ==
  /\ fn = "toCamelCase" /\ pc = "call"
  /\ IF IsNullish(input) THEN Throw(MissingMessage)
     ELSE IF TypeOf(input) # "string" THEN Throw(WrongTypeMessage(input))
     ELSE Goto("trim") /\ UNCHANGED <<str, normalized, cleaned>>

\* toCamelCase: str = str.trim(), and the early return on the empty string
CamelTrim ==
  /\ fn = "toCamelCase" /\ pc = "trim"
  /\ str' = Value(Trim(input.chars))
  /\ IF Len(Trim(input.chars)) = 0
     THEN /\ pc' = "returned"
          /\ result' = Value(<<>>)
          /\ UNCHANGED <<fn, input, normalized, cleaned, error>>
     ELSE Goto("clean") /\ UNCHANGED <<normalized, cleaned>>

\* toCamelCase: const cleaned = ..., and the early return on no words
CamelClean ==
  /\ fn = "toCamelCase" /\ pc = "clean"
  /\ cleaned' = Value(CamelCleaned(str.val))
  /\ IF Len(CamelCleaned(str.val)) = 0
     THEN /\ pc' = "returned"
          /\ result' = Value(<<>>)
          /\ UNCHANGED <<fn, input, str, normalized, error>>
     ELSE Goto("join") /\ UNCHANGED <<str, normalized>>

\* toCamelCase: return cleaned.map(...).join('')
CamelJoin ==
  /\ fn = "toCamelCase" /\ pc = "join"
  /\ Return(CamelJoined(cleaned.val))

\* simple toCamelCase: the whole body; .split of a non-string raises
SimpleCamel ==
  /\ fn = "simpleToCamelCase" /\ pc = "call"
  /\ IF TypeOf(input) # "string" THEN Throw(NoSplitMessage)
     ELSE Return(SimpleCamelCase(input.chars))

Next ==
  \/ KebabValidate \/ KebabNormalize \/ KebabReplace \/ KebabReturn
  \/ DotValidate \/ DotTrim \/ DotClean \/ DotJoin
  \/ CamelValidate \/ CamelTrim \/ CamelClean \/ CamelJoin
  \/ SimpleCamel

Spec == Init /\ [][Next]_vars

----------------------------------------------------------------------------
(* Vocabulary of the properties *)

Validated == {"toKebabCase", "toDotCase", "toCamelCase"}

Letters == Lower \cup Upper

Separators == Whitespace \cup {"_", "-"}

\* punctuation of the test calls, and the dot
Punctuation == {"@", "#", "!", "$", "."}

IsString == input.type = "string"

Returned(f) == fn = f /\ pc = "returned"

\* The token sequence of a string by one left-to-right scan: a token is a
\* maximal run of letters and digits between separators, every character
\* that is neither a letter, a digit nor a separator being skipped
RECURSIVE ScanTokens(_, _)
ScanTokens(s, cur) ==
  IF s = <<>> THEN (IF cur = <<>> THEN <<>> ELSE <<cur>>)
  ELSE IF Head(s) \in Separators
       THEN (IF cur = <<>> THEN <<>> ELSE <<cur>>) \o ScanTokens(Tail(s), <<>>)
       ELSE IF Head(s) \in Letters \cup Digits
            THEN ScanTokens(Tail(s), Append(cur, Head(s)))
            ELSE ScanTokens(Tail(s), cur)

Tokens(s) == ScanTokens(s, <<>>)

RECURSIVE Concat(_)
Concat(ws) == IF ws = <<>> THEN <<>> ELSE Head(ws) \o Concat(Tail(ws))

RECURSIVE Intersperse(_, _)
Intersperse(ws, c) ==
  IF ws = <<>> THEN <<>>
  ELSE IF Len(ws) = 1 THEN Head(ws)
  ELSE Head(ws) \o <<c>> \o Intersperse(Tail(ws), c)

LowerAll(ws) == [i \in 1..Len(ws) |-> ToLowerCase(ws[i])]

\* first token lowercased; every later token: first character uppercased,
\* the remaining characters lowercased
CamelTokens(ws) ==
  [i \in 1..Len(ws) |->
     IF i = 1 THEN ToLowerCase(ws[i])
     ELSE <<ToUpperChar(ws[i][1])>> \o ToLowerCase(Tail(ws[i]))]

Substitute(s, a, b) == [i \in 1..Len(s) |-> IF s[i] = a THEN b ELSE s[i]]

\* no leading, trailing or doubled c
WellSeparated(s, c) ==
  /\ s # <<>> => s[1] # c /\ s[Len(s)] # c
  /\ \A i \in 1..(Len(s) - 1) : ~(s[i] = c /\ s[i + 1] = c)

\* number of non-empty pieces of s split on the character c
PiecesOn(s, c) ==
  Cardinality({ i \in 1..Len(s) : s[i] # c /\ (i = 1 \/ s[i - 1] = c) })

\* number of non-empty pieces of s split before every uppercase letter
PiecesAtUpper(s) ==
  Cardinality({ i \in 1..Len(s) : i = 1 \/ s[i] \in Upper })

\* the first characters of the non-empty pieces of s split on c, but the first
LaterPieceHeads(s, c) == { s[i] : i \in { j \in 2..Len(s) : s[j - 1] = c /\ s[j] # c } }

OnlyChars(s, class) == \A i \in 1..Len(s) : s[i] \in class

----------------------------------------------------------------------------
(* C1: a non-string argument makes each validated function throw at once *)

\* C1: for every non-string argument (null, undefined, a number, an object,
\* an array) toKebabCase, toDotCase and toCamelCase throw before anything is
\* trimmed, tokenized or joined and return nothing; toDotCase and toCamelCase
\* throw the "missing" error for null/undefined and a different,
\* "wrong-type" error for every other non-string.
C1_NonStringRejected ==
  (fn \in Validated /\ ~IsString /\ pc # "call") =>
     /\ pc = "thrown"
     /\ error # ""
     /\ str = Unset /\ normalized = Unset /\ cleaned = Unset /\ result = Unset
     /\ fn = "toKebabCase" => error = "Input must be a non-null string"
     /\ fn \in {"toDotCase", "toCamelCase"} =>
          IF input.type \in {"null", "undefined"}
          THEN error = "Input cannot be null or undefined"
          ELSE error \in {"Expected string, received number",
                          "Expected string, received object"}

C1_Witness ==
  /\ fn = "toCamelCase" /\ input.type = "array" /\ pc = "thrown"
  /\ error = "Expected string, received object"

----------------------------------------------------------------------------
(* C2: words separated by punctuation only *)

\* C2: two runs of letters separated only by punctuation come out as two
\* words: toDotCase("hello@world!") = "hello.world", toDotCase("user#name$")
\* = "user.name", toCamelCase("hello@world!") = "helloWorld",
\* toCamelCase("user#name$") = "userName".
C2_PunctuationSeparatesWords ==
  /\ (Returned("toDotCase") /\ input.chars = HelloAtWorld)
       => result.val = Doc_hello_dot_world
  /\ (Returned("toDotCase") /\ input.chars = UserHashName)
       => result.val = Doc_user_dot_name
  /\ (Returned("toCamelCase") /\ input.chars = HelloAtWorld)
       => result.val = Doc_helloWorld
  /\ (Returned("toCamelCase") /\ input.chars = UserHashName)
       => result.val = Doc_userName

----------------------------------------------------------------------------
(* C3: token counts of the kebab and the camel output *)

\* C3 (as claimed, read on the ASCII strings, the claim's own examples
\* among them): the kebab output split on '-' has as many non-empty pieces
\* as the camel output split at uppercase boundaries.
C3_SamePieceCount ==
  (Returned("toCamelCase") /\ IsString
     /\ KelvinSign \notin Range(input.chars)) =>
     PiecesAtUpper(result.val) = PiecesOn(ToKebabCase(input.chars), "-")

\* C3 (amended): the camel output split at uppercase boundaries never has
\* more pieces than the kebab output split on '-' has non-empty pieces, and
\* has as many for every ASCII string in which every word after the first
\* begins with a letter.
C3_PieceCount ==
  (Returned("toCamelCase") /\ IsString) =>
     LET kebab == ToKebabCase(input.chars)
     IN  /\ PiecesAtUpper(result.val) <= PiecesOn(kebab, "-")
         /\ (KelvinSign \notin Range(input.chars)
               /\ LaterPieceHeads(kebab, "-") \subseteq Lower)
            => PiecesAtUpper(result.val) = PiecesOn(kebab, "-")

C3_Witness ==
  /\ Returned("toCamelCase")
  /\ input.chars = HelloWorldFooBar
  /\ PiecesAtUpper(result.val) = 4
  /\ PiecesOn(ToKebabCase(input.chars), "-") = 4

----------------------------------------------------------------------------
(* C4: toKebabCase is idempotent *)

ValidKebab(s) ==
  /\ s # <<>>
  /\ OnlyChars(s, Lower \cup Digits \cup {"-"})
  /\ WellSeparated(s, "-")

\* C4: toKebabCase applied to its own result returns that result, and a
\* string that is already valid kebab-case is returned unchanged.
C4_KebabIdempotent ==
  Returned("toKebabCase") =>
     /\ ToKebabCase(result.val) = result.val
     /\ ValidKebab(input.chars) => result.val = input.chars

C4_Witness ==
  /\ Returned("toKebabCase")
  /\ input.chars = ApiResponseCodePadded
  /\ result.val = Doc_api_response_code
  /\ ToKebabCase(result.val) = result.val

----------------------------------------------------------------------------
(* C5: nothing but separators and punctuation gives the empty string *)

\* C5: for every string made only of whitespace, '_', '-' and punctuation
\* (the empty string included) toKebabCase, toDotCase and toCamelCase
\* return the empty string.
C5_OnlySeparatorsGiveEmpty ==
  (fn \in Validated /\ IsString
     /\ OnlyChars(input.chars, Separators \cup Punctuation)) =>
     /\ pc # "thrown"
     /\ pc # "join"
     /\ pc = "return" => normalized.val = <<>>
     /\ pc = "returned" => result.val = <<>>

C5_Witness ==
  /\ Returned("toKebabCase")
  /\ input.chars = <<"_", "@", "-">>
  /\ result.val = <<>>

----------------------------------------------------------------------------
(* C6: toKebabCase against the tokenizer and toDotCase *)

\* C6: for every string, toKebabCase returns the tokens of the string
\* lowercased and joined by single '-', so the result has no leading,
\* trailing or doubled hyphen and equals toDotCase of the string with every
\* '.' replaced by '-'.
C6_KebabIsJoinedTokens ==
  Returned("toKebabCase") =>
     /\ result.val = Intersperse(LowerAll(Tokens(input.chars)), "-")
     /\ WellSeparated(result.val, "-")
     /\ result.val = Substitute(ToDotCase(input.chars), ".", "-")

----------------------------------------------------------------------------
(* C7: what the validated toCamelCase returns *)

----------------------------------------------------------------------------
(* C8: no separator in the camel output *)

\* C8: the output of the validated toCamelCase holds no '-', no '_', no
\* whitespace and no '.'.
C8_CamelHasNoSeparator ==
  Returned("toCamelCase") =>
     \A i \in 1..Len(result.val) :
        result.val[i] \notin Separators \cup {"."}

C8_Witness ==
  /\ Returned("toCamelCase")
  /\ input.chars = <<"a", ".", "_">>
  /\ result.val = <<"a">>

----------------------------------------------------------------------------
(* C9: the shape of the dot output *)

\* C9: the output of toDotCase holds only lowercase letters, digits and
\* dots, does not start or end with a dot and has no two dots in a row.
C9_DotWellFormed ==
  Returned("toDotCase") =>
     /\ OnlyChars(result.val, Lower \cup Digits \cup {"."})
     /\ WellSeparated(result.val, ".")

C9_Witness ==
  /\ Returned("toDotCase")
  /\ input.chars = <<"@", " ", "B">>
  /\ result.val = <<"b">>

----------------------------------------------------------------------------
(* C10: the simple toCamelCase variant *)

FirstLetter(s) == s[CHOOSE i \in 1..Len(s) :
                      s[i] \in Letters /\ \A j \in 1..(i - 1) : s[j] \notin Letters]

\* C10: for every string the simple toCamelCase returns a camelCase string:
\* spaces and special characters are removed, the first letter of the output
\* is lowercase whenever the input holds a letter, and on inputs made only
\* of letters, digits and separators the result is that of the validated
\* toCamelCase.
C10_SimpleIsCamelCase ==
  (Returned("simpleToCamelCase") /\ IsString) =>
     /\ OnlyChars(result.val, Letters \cup Digits)
     /\ (\E i \in 1..Len(input.chars) : input.chars[i] \in Letters)
          => FirstLetter(result.val) \in Lower
     /\ OnlyChars(input.chars, Letters \cup Digits \cup Separators)
          => result.val = ToCamelCase(input.chars)

====
